---- MODULE Spec2Model ----
(***************************************************************************)
(* Model of the IDR Intelligence Platform dashboards.                      *)
(*                                                                         *)
(*  - the legacy scorer calculate_fraud_flags (src/idr_streamlit_app.py)   *)
(*  - the summary-row scorers of the Fraud Alerts / Risk Flags tabs        *)
(*    (revisions 2, 3 and 4 in src/unnamed/part_000)                       *)
(*  - the paginated queries query_by_provider / _state / _specialty        *)
(*  - the summary loaders and search_providers                             *)
(*                                                                         *)
(* A script run of the dashboard is single threaded: "phase" is the place  *)
(* the current run is at, Rerun starts the next run with fresh locals.     *)
(*                                                                         *)
(* A data frame is kept column by column; a column is the multiset of its  *)
(* non-null values (value -> number of rows) plus the number of null rows. *)
(* No rule of the scorer reads the order of the rows or relates two        *)
(* columns of one row.  The float expressions a / b * 100 > t of the       *)
(* source are computed exactly as a * 100 > t * b (b > 0).                 *)
(***************************************************************************)
EXTENDS Integers, Sequences, FiniteSets, TLC

VARIABLES variant, phase, scorer, input, flags, risk_score, score_error,
          payer_named,
          query, supabase, matching, max_rows, offset, all_data, requests,
          windows, last_response, query_result, page_failed,
          loader, remote, load_result, load_requests,
          now, resource, cache, failed_calls, last_call, folder, store, view

vars == <<variant, phase, scorer, input, flags, risk_score, score_error,
          payer_named,
          query, supabase, matching, max_rows, offset, all_data, requests,
          windows, last_response, query_result, page_failed,
          loader, remote, load_result, load_requests,
          now, resource, cache, failed_calls, last_call, folder, store, view>>

scorerVars == <<scorer, input, flags, risk_score, score_error, payer_named>>

queryVars == <<query, supabase, matching, max_rows, offset, all_data, requests,
               windows, last_response, query_result, page_failed>>

loaderVars == <<loader, remote, load_result, load_requests>>

\* what outlives a script run: the clock, the cached client, the cached
\* values, the data folder and the local database
keptVars == <<now, resource, cache, failed_calls, folder, store>>

\* what a script run that uses the cache or the local database leaves
runVars == <<last_call, view>>

(***************************************************************************)
(* Bounds of the model.                                                    *)
(***************************************************************************)
\* values tried above each threshold: threshold, threshold + 1 .. + MaxOver
MaxOver == 1

\* the backend holds up to MaxPages full pages (plus a partial one)
MaxPages == 2

\* rows a summary table may hold
MaxSummaryRows == 2

(***************************************************************************)
(* Generic helpers.                                                        *)
(***************************************************************************)
Min2(a, b) == IF a < b THEN a ELSE b

Max2(a, b) == IF a > b THEN a ELSE b

RECURSIVE SumCounts(_)
\* number of non-null rows of a column given as value -> count
SumCounts(counts) ==
    IF DOMAIN counts = {} THEN 0
    ELSE LET v == CHOOSE x \in DOMAIN counts : TRUE
         IN counts[v] + SumCounts([w \in DOMAIN counts \ {v} |-> counts[w]])

RECURSIVE SumValues(_)
\* sum of the non-null values of a numeric column
SumValues(counts) ==
    IF DOMAIN counts = {} THEN 0
    ELSE LET v == CHOOSE x \in DOMAIN counts : TRUE
         IN v * counts[v] + SumValues([w \in DOMAIN counts \ {v} |-> counts[w]])

\* the largest count of a non-empty column: value_counts().iloc[0]
TopCount(counts) ==
    CHOOSE c \in {counts[v] : v \in DOMAIN counts} :
        \A v \in DOMAIN counts : counts[v] <= c

\* order of the quarter labels 'Qn YYYY' as Python strings: a label is
\* <<n, YYYY>> and the strings compare by n first, then by YYYY
QuarterLess(a, b) == a[1] < b[1] \/ (a[1] = b[1] /\ a[2] < b[2])

RECURSIVE SortedQuarters(_)
SortedQuarters(S) ==
    IF S = {} THEN <<>>
    ELSE LET m == CHOOSE x \in S : \A y \in S \ {x} : QuarterLess(x, y)
         IN <<m>> \o SortedQuarters(S \ {m})

(***************************************************************************)
(* Legacy scorer: calculate_fraud_flags(provider_df, full_df).             *)
(***************************************************************************)
OfferCol == "Provider/Facility Offer as % of QPA"

TypeCol == "Type of Dispute"

QuarterCol == "quarter"

LocationCol == "Location of Service"

PayerCol == "Health Plan/Issuer Name"

LegacyColumns == {OfferCol, TypeCol, QuarterCol, LocationCol, PayerCol}

LegacyHighVolume == 1000

LegacyOfferLimit == 500

LegacyBatchLimit == 90

LegacyGrowthLimit == 200

LegacyStatesLimit == 10

LegacyPayerLimit == 80

LegacyPointsPerFlag == 15

LegacyScoreCap == 100

\* Flag 1: total_disputes = len(provider_df); > 1000
LegacyVolumeFlag(df) ==
    IF df.len > LegacyHighVolume THEN <<"HIGH VOLUME">> ELSE <<>>

\* Flag 2: mean of the offer column (nulls skipped; mean of nothing is NaN,
\* and NaN > 500 is false)
LegacyPricingFlag(df) ==
    IF OfferCol \in DOMAIN df.cols
    THEN LET c == df.cols[OfferCol].counts
         IN IF SumCounts(c) > 0 /\ SumValues(c) > LegacyOfferLimit * SumCounts(c)
            THEN <<"EXTREME PRICING">> ELSE <<>>
    ELSE <<>>

\* (provider_df['Type of Dispute'] == 'Batched').sum()
BatchedCount(df) ==
    LET c == df.cols[TypeCol].counts
    IN IF "Batched" \in DOMAIN c THEN c["Batched"] ELSE 0

\* LegacyBatchRateOver with the threshold itself included
LegacyBatchRateAtLeast(df) == BatchedCount(df) * 100 >= LegacyBatchLimit * df.len

\* batch_rate > 90 with batch_rate = batched / len * 100
LegacyBatchRateOver(df) == BatchedCount(df) * 100 > LegacyBatchLimit * df.len

\* Flag 3
LegacyBatchFlag(df) ==
    IF TypeCol \in DOMAIN df.cols
    THEN IF LegacyBatchRateOver(df) THEN <<"BATCH ABUSER">> ELSE <<>>
    ELSE <<>>

\* growth > 200 with growth = (curr - prev) / prev * 100, prev > 0
GrowthOver(prev, curr) ==
    prev > 0 /\ (curr - prev) * 100 > LegacyGrowthLimit * prev

\* Flag 4: some pair of neighbours in the sorted quarter labels grows > 200%
LegacySpikeFlag(df) ==
    IF QuarterCol \in DOMAIN df.cols
    THEN LET quarterly_counts == df.cols[QuarterCol].counts
             sorted_quarters == SortedQuarters(DOMAIN quarterly_counts)
         IN IF Len(sorted_quarters) >= 2
               /\ \E i \in 2..Len(sorted_quarters) :
                     GrowthOver(quarterly_counts[sorted_quarters[i - 1]],
                                quarterly_counts[sorted_quarters[i]])
            THEN <<"VOLUME SPIKE">> ELSE <<>>
    ELSE <<>>

\* Flag 5: nunique() of the location column
LegacyMultiStateFlag(df) ==
    IF LocationCol \in DOMAIN df.cols
    THEN IF Cardinality(DOMAIN df.cols[LocationCol].counts) > LegacyStatesLimit
         THEN <<"MULTI-STATE OPERATION">> ELSE <<>>
    ELSE <<>>

\* top_payer_pct > 80 with top_payer_pct = payer_counts.iloc[0] / len * 100
LegacyPayerOverNonNull(df) ==
    TopCount(df.cols[PayerCol].counts) * 100
        > LegacyPayerLimit * SumCounts(df.cols[PayerCol].counts)

\* top_payer_pct > 80 with top_payer_pct = payer_counts.iloc[0] / len(provider_df) * 100
LegacyPayerOver(df) ==
    TopCount(df.cols[PayerCol].counts) * 100 > LegacyPayerLimit * df.len

\* payer_counts.index[0]: the payer with the most rows
TopPayer(df) ==
    CHOOSE v \in DOMAIN df.cols[PayerCol].counts :
        df.cols[PayerCol].counts[v] = TopCount(df.cols[PayerCol].counts)

\* Flag 6
LegacyPayerFlag(df) ==
    IF PayerCol \in DOMAIN df.cols
    THEN IF DOMAIN df.cols[PayerCol].counts # {} /\ LegacyPayerOver(df)
         THEN <<"PAYER TARGETING">> ELSE <<>>
    ELSE <<>>

\* a score that gives 20 points per flag
LegacyRiskScoreTwenty(fl) == Min2(LegacyScoreCap, Len(fl) * 20)

\* risk_score = min(100, len(flags) * 15)
LegacyRiskScore(fl) == Min2(LegacyScoreCap, Len(fl) * LegacyPointsPerFlag)

calculate_fraud_flags(df) ==
    LET fl == LegacyVolumeFlag(df) \o LegacyPricingFlag(df) \o LegacyBatchFlag(df)
              \o LegacySpikeFlag(df) \o LegacyMultiStateFlag(df)
              \o LegacyPayerFlag(df)
    IN [flags |-> fl, risk_score |-> LegacyRiskScore(fl), error |-> "none",
        payer |-> IF LegacyPayerFlag(df) # <<>> THEN <<TopPayer(df)>> ELSE <<>>]

(***************************************************************************)
(* Summary-row scorers of the Fraud Alerts / Risk Flags tab.  A row of     *)
(* providers_df is a function from the fields the summary table has to     *)
(* their values; row['f'] of a field the table lacks raises KeyError and   *)
(* ends the script run.                                                    *)
(***************************************************************************)
ExtremeVolumeLimit == 10000

HighVolumeLimit == 1000

BatchRateLimit == 90

StatesCountLimit == 10

WinRateLimit == 95

ExtremeVolumePoints == 30

HighVolumePoints == 15

BatchRatePoints == 20

StatesCountPoints == 15

WinRatePoints == 10

FlaggedMinScore == 30

NoFlags == [flags |-> <<>>, risk_score |-> 0, error |-> "none"]

\* AddFlag with the points taken off instead of added
AddFlagSubtract(s, label, points) ==
    [flags |-> Append(s.flags, label), risk_score |-> s.risk_score - points,
     error |-> "none"]

\* flags.append(label); risk_score += points
AddFlag(s, label, points) ==
    [flags |-> Append(s.flags, label), risk_score |-> s.risk_score + points,
     error |-> "none"]

\* Exceeds with the threshold itself included
ExceedsOrEqual(value, limit) == value >= limit

\* the comparison of every rule: row[field] > limit
Exceeds(value, limit) == value > limit

\* VolumeRule with two independent ifs in place of if / elif
VolumeRuleBothIfs(s, row, extremeLabel, highLabel) ==
    IF s.error # "none" THEN s
    ELSE IF "total_disputes" \notin DOMAIN row THEN [s EXCEPT !.error = "KeyError"]
    ELSE LET s1 == IF Exceeds(row["total_disputes"], ExtremeVolumeLimit)
                   THEN AddFlag(s, extremeLabel, ExtremeVolumePoints) ELSE s
         IN IF Exceeds(row["total_disputes"], HighVolumeLimit)
            THEN AddFlag(s1, highLabel, HighVolumePoints) ELSE s1

\* if row['total_disputes'] > 10000: ... elif row['total_disputes'] > 1000: ...
VolumeRule(s, row, extremeLabel, highLabel) ==
    IF s.error # "none" THEN s
    ELSE IF "total_disputes" \notin DOMAIN row THEN [s EXCEPT !.error = "KeyError"]
    ELSE IF Exceeds(row["total_disputes"], ExtremeVolumeLimit)
         THEN AddFlag(s, extremeLabel, ExtremeVolumePoints)
    ELSE IF Exceeds(row["total_disputes"], HighVolumeLimit)
         THEN AddFlag(s, highLabel, HighVolumePoints)
    ELSE s

\* FieldRule that also fires at the threshold
FieldRuleAtLeast(s, row, field, limit, label, points) ==
    IF s.error # "none" THEN s
    ELSE IF field \notin DOMAIN row THEN [s EXCEPT !.error = "KeyError"]
    ELSE IF row[field] >= limit THEN AddFlag(s, label, points)
    ELSE s

\* if row[field] > limit: flags.append(label); risk_score += points
FieldRule(s, row, field, limit, label, points) ==
    IF s.error # "none" THEN s
    ELSE IF field \notin DOMAIN row THEN [s EXCEPT !.error = "KeyError"]
    ELSE IF Exceeds(row[field], limit) THEN AddFlag(s, label, points)
    ELSE s

\* revision 2: idr_streamlit_app (2).py, Fraud Alerts tab
\* (labels are written without the flag sign that precedes them in the source)
ScoreRev2(row) ==
    LET s1 == VolumeRule(NoFlags, row, "EXTREME VOLUME", "HIGH VOLUME")
        s2 == FieldRule(s1, row, "batch_rate", BatchRateLimit,
                        "BATCH ABUSER", BatchRatePoints)
        s3 == FieldRule(s2, row, "states_count", StatesCountLimit,
                        "MULTI-STATE", StatesCountPoints)
        s4 == FieldRule(s3, row, "win_rate", WinRateLimit,
                        "ABNORMAL WIN RATE", WinRatePoints)
    IN s4

\* ScoreRev3 with the states rule tried before the batch rule
ScoreRev3StatesFirst(row) ==
    LET s1 == VolumeRule(NoFlags, row, "EXTREME VOLUME", "HIGH VOLUME")
        s2 == FieldRule(s1, row, "states_count", StatesCountLimit,
                        "MULTI-STATE", StatesCountPoints)
        s3 == FieldRule(s2, row, "batch_rate", BatchRateLimit,
                        "BATCH ABUSER", BatchRatePoints)
        s4 == FieldRule(s3, row, "win_rate", WinRateLimit,
                        "ABNORMAL WIN RATE", WinRatePoints)
    IN s4

\* revision 3: idr_streamlit_app (3).py, Fraud Alerts tab
ScoreRev3(row) ==
    LET s1 == VolumeRule(NoFlags, row, "EXTREME VOLUME", "HIGH VOLUME")
        s2 == FieldRule(s1, row, "batch_rate", BatchRateLimit,
                        "BATCH ABUSER", BatchRatePoints)
        s3 == FieldRule(s2, row, "states_count", StatesCountLimit,
                        "MULTI-STATE", StatesCountPoints)
        s4 == FieldRule(s3, row, "win_rate", WinRateLimit,
                        "ABNORMAL WIN RATE", WinRatePoints)
    IN s4

\* revision 4: idr_streamlit_app (4).py, Risk Flags tab (renamed labels)
ScoreRev4(row) ==
    LET s1 == VolumeRule(NoFlags, row, "EXTREME VOLUME", "HIGH VOLUME")
        s2 == FieldRule(s1, row, "batch_rate", BatchRateLimit,
                        "BATCH EXPLOITATION", BatchRatePoints)
        s3 == FieldRule(s2, row, "states_count", StatesCountLimit,
                        "MULTI-JURISDICTION", StatesCountPoints)
        s4 == FieldRule(s3, row, "win_rate", WinRateLimit,
                        "ANOMALOUS WIN RATE", WinRatePoints)
    IN s4

SummaryScorers == {"rev2", "rev3", "rev4"}

ScoreSummary(rev, row) ==
    CASE rev = "rev2" -> ScoreRev2(row)
      [] rev = "rev3" -> ScoreRev3(row)
      [] rev = "rev4" -> ScoreRev4(row)

\* Flagged with the threshold itself left out
FlaggedAbove(risk) == risk > FlaggedMinScore

\* if risk_score >= 30: flagged.append({...})
Flagged(risk) == risk >= FlaggedMinScore

\* the keys of the dict a revision appends to the flagged list
FlaggedColumns(rev) ==
    CASE rev = "rev2" -> <<"Provider", "Disputes", "Win Rate", "Batch Rate",
                           "States", "Risk Score", "Flags">>
      [] rev = "rev3" -> <<"Provider", "Disputes", "Win Rate", "Risk Score",
                           "Flags">>
      [] rev = "rev4" -> <<"ENTITY", "DISPUTES", "WIN RATE", "THREAT LEVEL",
                           "INDICATORS">>

\* the dict appended for a row: its values under the revision's keys
FlaggedEntry(rev, row, r) ==
    [columns |-> FlaggedColumns(rev),
     disputes |-> row["total_disputes"],
     win_rate |-> row["win_rate"],
     score |-> r.risk_score,
     flags |-> r.flags]

\* what one pass of the loop body adds to the flagged list; a KeyError ends
\* the script run before anything is appended
FlaggedList(rev, row) ==
    LET r == ScoreSummary(rev, row)
    IN IF r.error = "none" /\ Flagged(r.risk_score)
       THEN <<FlaggedEntry(rev, row, r)>>
       ELSE <<>>

(***************************************************************************)
(* Inputs of the scorers.                                                  *)
(***************************************************************************)
\* values at and just above a threshold
Around(limit) == {limit + d : d \in 0..MaxOver}

\* a column of two values with the given numbers of rows and nulls
Column2(v1, c1, v2, c2, nulls) ==
    [counts |-> [v \in {x \in {v1, v2} : (IF x = v1 THEN c1 ELSE c2) > 0}
                    |-> IF v = v1 THEN c1 ELSE c2],
     nulls |-> nulls]

FrameLens == {1, 10} \cup Around(LegacyHighVolume) \cup Around(ExtremeVolumeLimit)

\* offers: all 500%, one row of 501% among rows of 500%, or no offer at all
OfferColumns(n) ==
    { Column2(LegacyOfferLimit, n, LegacyOfferLimit + 1, 0, 0),
      Column2(LegacyOfferLimit, n - 1, LegacyOfferLimit + 1, 1, 0),
      Column2(LegacyOfferLimit, 0, LegacyOfferLimit + 1, 0, n) }

\* dispute types: none batched, 90% (rounded down) batched, one more than that
TypeColumns(n) ==
    { Column2("Batched", b, "Single", n - b, 0) :
        b \in {0, (LegacyBatchLimit * n) \div 100,
               Min2(n, (LegacyBatchLimit * n) \div 100 + 1)} }

\* quarters: one quarter, or two quarters whose counts are a and n - a with
\* n - a at or around three times a; the labels are in one year or span
\* a change of year
QuarterColumns(n) ==
    { Column2(<<1, 2023>>, n, <<2, 2023>>, 0, 0) }
    \cup { Column2(p[1], a, p[2], n - a, 0) :
             p \in { << <<1, 2023>>, <<2, 2023>> >>, << <<4, 2023>>, <<1, 2024>> >> },
             a \in {x \in {n \div 4, n \div 4 + 1} : x >= 1 /\ x < n} }

\* locations: k distinct states, all rows but k - 1 in the first one
LocationColumns(n) ==
    { [counts |-> [st \in 1..k |-> IF st = 1 THEN n - k + 1 ELSE 1], nulls |-> 0] :
        k \in {x \in {1, LegacyStatesLimit, LegacyStatesLimit + 1} : x <= n} }

\* payers: the first payer has 80% (rounded down) of the rows or one more,
\* the rest is another payer or has no payer value; or no row has a payer
PayerColumns(n) ==
    { Column2("P1", t, "P2", n - t, 0) :
        t \in {x \in {(LegacyPayerLimit * n) \div 100,
                      (LegacyPayerLimit * n) \div 100 + 1} : x >= 1 /\ x <= n} }
    \cup { Column2("P1", t, "P2", 0, n - t) :
        t \in {x \in {(LegacyPayerLimit * n) \div 100,
                      (LegacyPayerLimit * n) \div 100 + 1} : x >= 0 /\ x <= n} }

\* a column that the frame may lack: <<>> or <<column>>
Optional(S) == {<<>>} \cup {<<x>> : x \in S}

\* the frame of n rows with the columns given
MakeFrame(n, chosen) ==
    [len |-> n,
     cols |-> [c \in {x \in LegacyColumns : chosen[x] # <<>>} |-> chosen[c][1]]]

\* the row-sets of one provider: never empty, any subset of the columns
ProviderFrames ==
    UNION { { MakeFrame(n, (OfferCol :> o) @@ (TypeCol :> t) @@ (QuarterCol :> q)
                           @@ (LocationCol :> l) @@ (PayerCol :> p)) :
                o \in Optional(OfferColumns(n)), t \in Optional(TypeColumns(n)),
                q \in Optional(QuarterColumns(n)), l \in Optional(LocationColumns(n)),
                p \in Optional(PayerColumns(n)) }
            : n \in FrameLens }

\* a summary row holds total_disputes (the loaders order by it) and any of
\* the other fields the scorer reads
OptionalFields == {"batch_rate", "states_count", "win_rate"}

FieldValues(f) ==
    CASE f = "total_disputes" ->
            Around(HighVolumeLimit) \cup Around(ExtremeVolumeLimit)
      [] f = "batch_rate" -> Around(BatchRateLimit)
      [] f = "states_count" -> Around(StatesCountLimit)
      [] f = "win_rate" -> Around(WinRateLimit)

MakeRow(chosen) ==
    [f \in {x \in {"total_disputes"} \cup OptionalFields : chosen[x] # <<>>}
        |-> chosen[f][1]]

SummaryRows ==
    { MakeRow(("total_disputes" :> <<d>>) @@ ("batch_rate" :> b)
              @@ ("states_count" :> s) @@ ("win_rate" :> w)) :
        d \in FieldValues("total_disputes"),
        b \in Optional(FieldValues("batch_rate")),
        s \in Optional(FieldValues("states_count")),
        w \in Optional(FieldValues("win_rate")) }

(***************************************************************************)
(* The backend client.                                                     *)
(***************************************************************************)
\* what get_supabase_client finds: the package and both credentials, no
\* credentials, or an exception from the import or from create_client
Environments == {"ok", "no_credentials", "exception"}

\* get_supabase_client(): the client, or None
get_supabase_client(env) == IF env = "ok" THEN "client" ELSE "None"

(***************************************************************************)
(* Paginated queries query_by_provider, query_by_state, query_by_specialty.*)
(* The rows that match the filter are numbered 0 .. matching - 1 in the    *)
(* order of the backend; a response is the run of rows [first, count].     *)
(***************************************************************************)
batch_size == 1000

\* numbers of matching rows: whole pages, one row more, one row less
MatchingCounts ==
    {n \in UNION { {k * batch_size, k * batch_size + 1, (k + 1) * batch_size - 1} :
                     k \in 0..MaxPages } : n <= MaxPages * batch_size + 1}

\* the rows of .range(from, to) over an unchanging backend that returns at
\* most cap rows per request
Response(total, from, to, cap) ==
    [first |-> from,
     count |-> Min2(cap, Max2(0, Min2(to, total - 1) - from + 1))]

RECURSIVE RowCount(_)
\* len() of the accumulated rows
RowCount(data) ==
    IF data = <<>> THEN 0 ELSE Head(data).count + RowCount(Tail(data))

\* ShortPage that also takes a full page for the last one
ShortPageOrFull(n) == n <= batch_size

\* ShortPage that never ends the loop
ShortPageNever(n) == FALSE

\* if len(response.data) < batch_size: break
ShortPage(n) == n < batch_size

\* NextOffset that advances one row short of a window
NextOffsetOverlap(o) == o + batch_size - 1

\* offset += batch_size
NextOffset(o) == o + batch_size

\* RangeEnd that takes the end of the window for exclusive
RangeEndExclusive(o) == o + batch_size

\* the last row of the window: .range(offset, offset + batch_size - 1)
RangeEnd(o) == o + batch_size - 1

\* the rows a backend returns per request at most: the backend of Spec
\* answers a window of batch_size rows in full
FullWindowCaps == {batch_size}

\* a backend set up to return fewer rows per request than the window asks
SmallCaps == {batch_size \div 2, batch_size - 1}

\* supabase = get_supabase_client(); if not supabase: return pd.DataFrame()
QueryStart(kind, caps) ==
    /\ variant = "rev2"
    /\ phase = "idle"
    /\ query' = kind
    /\ \E env \in Environments, n \in MatchingCounts, cap \in caps :
         /\ supabase' = get_supabase_client(env)
         /\ matching' = n
         /\ max_rows' = cap
    /\ offset' = 0
    /\ all_data' = <<>>
    /\ requests' = 0
    /\ windows' = <<>>
    /\ last_response' = 0
    /\ page_failed' = FALSE
    /\ IF supabase' = "None"
       THEN phase' = "returned" /\ query_result' = "DataFrame"
       ELSE phase' = "querying" /\ query_result' = "none"
    /\ UNCHANGED <<variant, scorerVars, loaderVars, keptVars, runVars>>

QueryBegin(kind) == QueryStart(kind, FullWindowCaps)

\* one turn of the while loop: the request either raises, and nothing in
\* the query or in main catches it, or answers
QueryPage(kind) ==
    /\ phase = "querying"
    /\ query = kind
    /\ requests' = requests + 1
    /\ windows' = Append(windows, <<offset, RangeEnd(offset)>>)
    /\ \E answered \in BOOLEAN :
         IF ~answered
         THEN /\ page_failed' = TRUE
              /\ phase' = "raised"
              /\ query_result' = "exception"
              /\ UNCHANGED <<offset, all_data, last_response>>
         ELSE LET response == Response(matching, offset, RangeEnd(offset), max_rows)
              IN /\ last_response' = response.count
                 /\ page_failed' = FALSE
                 /\ IF response.count = 0
                    THEN /\ phase' = "returned"
                         /\ query_result' = "DataFrame"
                         /\ UNCHANGED <<offset, all_data>>
                    ELSE /\ all_data' = Append(all_data, response)
                         /\ offset' = NextOffset(offset)
                         /\ IF ShortPage(response.count)
                            THEN phase' = "returned" /\ query_result' = "DataFrame"
                            ELSE phase' = "querying" /\ query_result' = "none"
    /\ UNCHANGED <<variant, query, supabase, matching, max_rows, scorerVars,
                   loaderVars, keptVars, runVars>>

query_by_provider == QueryBegin("provider") \/ QueryPage("provider")

query_by_state == QueryBegin("state") \/ QueryPage("state")

query_by_specialty == QueryBegin("specialty") \/ QueryPage("specialty")

(***************************************************************************)
(* Summary loaders and search_providers.  The remote call either raises    *)
(* or answers with a number of rows.                                       *)
(***************************************************************************)
RemoteOutcomes ==
    {[ok |-> FALSE, rows |-> 0]} \cup {[ok |-> TRUE, rows |-> k] : k \in 0..MaxSummaryRows}

NotCalled == [ok |-> TRUE, rows |-> 0]

\* load_overview: None without client, on an exception and for no row,
\* else the first row
load_overview(client, outcome) ==
    IF client = "None" THEN [kind |-> "None", rows |-> 0, requests |-> 0]
    ELSE IF ~outcome.ok THEN [kind |-> "None", rows |-> 0, requests |-> 1]
    ELSE IF outcome.rows > 0 THEN [kind |-> "dict", rows |-> 1, requests |-> 1]
    ELSE [kind |-> "None", rows |-> 0, requests |-> 1]

\* LoadFrame without the try / except around the remote call
LoadFrameNoExcept(client, outcome) ==
    IF client = "None" THEN [kind |-> "DataFrame", rows |-> 0, requests |-> 0]
    ELSE IF ~outcome.ok THEN [kind |-> "exception", rows |-> 0, requests |-> 1]
    ELSE [kind |-> "DataFrame", rows |-> outcome.rows, requests |-> 1]

\* the loaders of a table and search_providers: an empty frame without
\* client and on an exception, else the frame of the rows
LoadFrame(client, outcome) ==
    IF client = "None" THEN [kind |-> "DataFrame", rows |-> 0, requests |-> 0]
    ELSE IF ~outcome.ok THEN [kind |-> "DataFrame", rows |-> 0, requests |-> 1]
    ELSE [kind |-> "DataFrame", rows |-> outcome.rows, requests |-> 1]

FrameLoaders ==
    {"load_provider_summaries", "load_state_summaries", "load_specialty_summaries",
     "load_payer_summaries", "load_quarterly_summaries", "load_state_providers",
     "load_state_specialties", "load_state_payers", "load_state_quarterly",
     "search_providers"}

\* the loaders of the per-state tables, which revisions 3 and 4 add
StateLoaders ==
    {"load_state_providers", "load_state_specialties", "load_state_payers",
     "load_state_quarterly"}

\* the loaders of a table that a revision of the dashboard defines
FrameLoadersOf(v) ==
    CASE v = "rev2" -> FrameLoaders \ StateLoaders
      [] v \in {"rev3", "rev4"} -> FrameLoaders
      [] OTHER -> {}

\* one call of a loader whose value is not cached
Load(name, client, outcome) ==
    /\ variant \in SummaryScorers
    /\ phase = "idle"
    /\ loader' = name
    /\ supabase' = client
    /\ remote' = IF client = "None" THEN NotCalled ELSE outcome
    /\ LET r == IF name = "load_overview" THEN load_overview(client, outcome)
                ELSE LoadFrame(client, outcome)
       IN /\ load_result' = [kind |-> r.kind, rows |-> r.rows]
          /\ load_requests' = r.requests
    /\ phase' = "loaded"
    /\ UNCHANGED <<variant, scorerVars, query, matching, max_rows, offset, all_data,
                   requests, windows, last_response, query_result, page_failed,
                   keptVars, runVars>>

LoadOverview ==
    \E env \in Environments, outcome \in RemoteOutcomes :
        Load("load_overview", get_supabase_client(env), outcome)

LoadSummaries ==
    \E name \in FrameLoadersOf(variant), env \in Environments,
       outcome \in RemoteOutcomes :
        Load(name, get_supabase_client(env), outcome)

(***************************************************************************)
(* Caching.  @st.cache_data(ttl=3600) keeps the value of a loader per      *)
(* argument for ttl seconds; @st.cache_resource keeps the client, or the   *)
(* None that get_supabase_client returned, for the life of the process.    *)
(***************************************************************************)
ttl == 3600

\* the clock moves by one tick of a second or of a second less than the ttl
TickSteps == {1, ttl - 1}

\* ticks of the clock the model follows
MaxTicks == 2

\* the ticks that led to the time t
TicksUsed(t) == (t \div (ttl - 1)) + (t % (ttl - 1))

NoCall == [key |-> <<"none", "">>, hit |-> FALSE, requested |-> FALSE,
           value |-> [kind |-> "none", rows |-> 0]]

\* no data folder, no database file, nothing rendered
NoFolder == [exists |-> FALSE, files |-> <<>>]

NoStore == [exists |-> FALSE, table |-> <<>>]

NoView == [shown |-> "nothing"]

\* Fresh that keeps a value whatever its age
FreshForever(key) == key \in DOMAIN cache

\* the cache holds a value for the key that is younger than the ttl
Fresh(key) == key \in DOMAIN cache /\ now < cache[key].at + ttl

\* a cached value belongs to a function and the argument of the call
CacheKey(fn, arg) == <<fn, arg>>

\* the cache after a value was stored under the key
StoredOnlyRows(key, value) ==
    IF value.rows > 0
    THEN [k \in DOMAIN cache \cup {key} |->
             IF k = key THEN [value |-> value, at |-> now] ELSE cache[k]]
    ELSE cache

Stored(key, value) ==
    [k \in DOMAIN cache \cup {key} |->
        IF k = key THEN [value |-> value, at |-> now] ELSE cache[k]]

\* states a per-state loader is called with
StateArgs == {"CA", "TX"}

\* the cached loaders called in the model and their arguments
CachedLoaders == {"load_overview", "load_state_providers"}

ArgsOf(fn) == IF fn = "load_state_providers" THEN StateArgs ELSE {""}

\* the body of a cached loader
LoaderBody(fn, client, outcome) ==
    IF fn = "load_overview" THEN load_overview(client, outcome)
    ELSE LoadFrame(client, outcome)

\* what the remote call of a cached loader answers: it raises or has a row
CachedOutcomes == {[ok |-> FALSE, rows |-> 0], [ok |-> TRUE, rows |-> 1]}

\* the keys whose stored value is what the loader made of a remote call that
\* raised: the keys called now are judged anew, the others stay
Failures(keys, client, outcomes) ==
    (failed_calls \ keys)
    \cup {k \in keys : client = "client" /\ ~outcomes[k].ok}

\* get_supabase_client() under @st.cache_resource: the first call decides
CachedClient(env) == IF resource = "unset" THEN get_supabase_client(env) ELSE resource

\* a call of a cached loader: the cached value while it is fresh, else the
\* body runs and its value, also an empty one, is stored
CachedLoad ==
    /\ variant \in SummaryScorers
    /\ phase = "idle"
    /\ \E fn \in CachedLoaders \cap ({"load_overview"} \cup FrameLoadersOf(variant)) :
       \E arg \in ArgsOf(fn) :
         LET key == CacheKey(fn, arg)
         IN IF Fresh(key)
            THEN /\ last_call' = [key |-> <<fn, arg>>, hit |-> TRUE,
                                  requested |-> FALSE, value |-> cache[key].value]
                 /\ UNCHANGED <<cache, resource, failed_calls>>
            ELSE \E env \in Environments, outcome \in CachedOutcomes :
                   LET client == CachedClient(env)
                       r == LoaderBody(fn, client, outcome)
                       value == [kind |-> r.kind, rows |-> r.rows]
                   IN /\ resource' = client
                      /\ cache' = Stored(key, value)
                      /\ failed_calls' = Failures({key}, client, [k \in {key} |-> outcome])
                      /\ last_call' = [key |-> <<fn, arg>>, hit |-> FALSE,
                                       requested |-> r.requests > 0, value |-> value]
    /\ phase' = "called"
    /\ UNCHANGED <<variant, scorerVars, queryVars, loaderVars, now, folder, store, view>>

\* time passes between two script runs
Tick ==
    /\ phase = "idle"
    /\ TicksUsed(now) < MaxTicks
    /\ \E d \in TickSteps : now' = now + d
    /\ UNCHANGED <<variant, phase, scorerVars, queryVars, loaderVars, resource, cache,
                   failed_calls, folder, store, runVars>>

(***************************************************************************)
(* The legacy dashboard: CSV files of a folder are loaded into the table   *)
(* idr_disputes of a local database, which the script then reads through   *)
(* the cache.  A file name is the sequence of its characters.  A quarter   *)
(* label 'Qn YYYY' is <<n, YYYY>>, with UnknownQuarter and UnknownYear for  *)
(* 'Unknown', which as a string sorts after every 'Qn' and every year.     *)
(***************************************************************************)
UpperCase == <<"A", "B", "C", "D", "E", "F", "G", "H", "I", "J", "K", "L", "M",
               "N", "O", "P", "Q", "R", "S", "T", "U", "V", "W", "X", "Y", "Z">>

LowerCase == <<"a", "b", "c", "d", "e", "f", "g", "h", "i", "j", "k", "l", "m",
               "n", "o", "p", "q", "r", "s", "t", "u", "v", "w", "x", "y", "z">>

\* str.lower() of one character
LowerChar(c) ==
    IF \E i \in 1..Len(UpperCase) : UpperCase[i] = c
    THEN LowerCase[CHOOSE i \in 1..Len(UpperCase) : UpperCase[i] = c]
    ELSE c

\* LowerName that leaves the name as it is
LowerNameIdentity(name) == name

\* csv_file.name.lower()
LowerName(name) == [i \in 1..Len(name) |-> LowerChar(name[i])]

\* pat in name
Contains(name, pat) ==
    \E i \in 1..(Len(name) - Len(pat) + 1) : SubSeq(name, i, i + Len(pat) - 1) = pat

UnknownYear == 9999

UnknownQuarter == 5

\* the digits of a year
YearText(y) ==
    CASE y = 2022 -> <<"2", "0", "2", "2">>
      [] y = 2023 -> <<"2", "0", "2", "3">>
      [] y = 2024 -> <<"2", "0", "2", "4">>
      [] y = 2025 -> <<"2", "0", "2", "5">>

\* 'q1' .. 'q4'
QuarterText(n) ==
    CASE n = 1 -> <<"q", "1">>
      [] n = 2 -> <<"q", "2">>
      [] n = 3 -> <<"q", "3">>
      [] n = 4 -> <<"q", "4">>

\* the if / elif chain over '2022' .. '2025'
YearOf(filename_lower) ==
    IF Contains(filename_lower, YearText(2022)) THEN 2022
    ELSE IF Contains(filename_lower, YearText(2023)) THEN 2023
    ELSE IF Contains(filename_lower, YearText(2024)) THEN 2024
    ELSE IF Contains(filename_lower, YearText(2025)) THEN 2025
    ELSE UnknownYear

\* the if / elif chain over 'q1' .. 'q4'
QuarterOf(name) ==
    LET filename_lower == LowerName(name)
        year == YearOf(filename_lower)
    IN IF Contains(filename_lower, QuarterText(1)) THEN <<1, year>>
       ELSE IF Contains(filename_lower, QuarterText(2)) THEN <<2, year>>
       ELSE IF Contains(filename_lower, QuarterText(3)) THEN <<3, year>>
       ELSE IF Contains(filename_lower, QuarterText(4)) THEN <<4, year>>
       ELSE <<UnknownQuarter, year>>

\* names of CSV files
Name_IDR_2023_Q1 ==
    <<"I", "D", "R", "_", "2", "0", "2", "3", "_", "Q", "1", ".", "c", "s", "v">>

Name_2024q4 == <<"2", "0", "2", "4", "q", "4", ".", "c", "s", "v">>

Name_q2_2025_2022 ==
    <<"q", "2", "_", "2", "0", "2", "5", "_", "2", "0", "2", "2", ".", "c", "s", "v">>

Name_data == <<"d", "a", "t", "a", ".", "c", "s", "v">>

Name_Q3 == <<"Q", "3", ".", "c", "s", "v">>

Name_2021_q1 == <<"2", "0", "2", "1", "_", "q", "1", ".", "c", "s", "v">>

Name_q4q1_2023 == <<"q", "4", "q", "1", "_", "2", "0", "2", "3", ".", "c", "s", "v">>

\* a CSV file: its name, whether pd.read_csv reads it, and its records with
\* the columns the filters look at: location ('Location of Service'),
\* specialty ('Practice/Facility Specialty or Type') and payer ('Health
\* Plan/Issuer Name'); a record lacks the columns its file does not have
CsvFile(name, readable, rows) == [name |-> name, readable |-> readable, rows |-> rows]

\* the data folders the legacy dashboard is started next to
Folders ==
    { NoFolder,
      [exists |-> TRUE, files |-> <<>>],
      [exists |-> TRUE, files |-> <<CsvFile(Name_data, FALSE, <<>>)>>],
      [exists |-> TRUE,
       files |-> <<CsvFile(Name_IDR_2023_Q1, TRUE,
                           <<[location |-> "CA"], [location |-> "TX"]>>),
                   CsvFile(Name_Q3, FALSE, <<>>),
                   CsvFile(Name_2024q4, TRUE, <<[location |-> "CA"]>>)>>],
      [exists |-> TRUE,
       files |-> <<CsvFile(Name_q2_2025_2022, TRUE,
                           <<[location |-> "TX", specialty |-> "Radiology",
                              payer |-> "Aetna"]>>),
                   CsvFile(Name_data, TRUE,
                           <<[location |-> "CA", payer |-> "Aetna"]>>),
                   CsvFile(Name_Q3, TRUE, <<>>)>>],
      [exists |-> TRUE,
       files |-> <<CsvFile(Name_2021_q1, TRUE, <<[location |-> "CA"]>>),
                   CsvFile(Name_q4q1_2023, TRUE,
                           <<[location |-> "TX"], [location |-> "TX"]>>),
                   CsvFile(Name_Q3, TRUE, <<[location |-> "CA"]>>)>>] }

\* the records of one file as read and labelled: df['quarter'] = quarter,
\* df['data_loaded_at'] = datetime.now().isoformat()
FileRecords(file, time) ==
    [i \in 1..Len(file.rows) |->
        file.rows[i] @@ [file |-> file.name, quarter |-> QuarterOf(file.name),
                         data_loaded_at |-> time]]

RECURSIVE ReadFiles(_, _)
\* all_dfs concatenated: the records of the files that read, in file order
ReadFiles(files, time) ==
    IF files = <<>> THEN <<>>
    ELSE (IF Head(files).readable THEN FileRecords(Head(files), time) ELSE <<>>)
         \o ReadFiles(Tail(files), time)

\* init_database(): the database file with an empty table idr_disputes,
\* unless the table is there
init_database(st) == IF st.exists THEN st ELSE [exists |-> TRUE, table |-> <<>>]

\* get_database_info(): None without database file, else the count
get_database_info(st) ==
    IF st.exists THEN [found |-> TRUE, count |-> Len(st.table)]
    ELSE [found |-> FALSE, count |-> 0]

\* load_csv_to_database that appends to the table (if_exists='append')
load_csv_to_database_append(fd, st, time) ==
    IF ~fd.exists THEN [ok |-> FALSE, store |-> st]
    ELSE IF fd.files = <<>> THEN [ok |-> FALSE, store |-> st]
    ELSE IF \A i \in 1..Len(fd.files) : ~fd.files[i].readable
         THEN [ok |-> FALSE, store |-> st]
    ELSE [ok |-> TRUE,
          store |-> [exists |-> TRUE, table |-> st.table \o ReadFiles(fd.files, time)]]

\* load_csv_to_database(): False without folder, without CSV file and when
\* no file reads; else the table is replaced by the records read
load_csv_to_database(fd, st, time) ==
    IF ~fd.exists THEN [ok |-> FALSE, store |-> st]
    ELSE IF fd.files = <<>> THEN [ok |-> FALSE, store |-> st]
    ELSE IF \A i \in 1..Len(fd.files) : ~fd.files[i].readable
         THEN [ok |-> FALSE, store |-> st]
    ELSE [ok |-> TRUE, store |-> [exists |-> TRUE, table |-> ReadFiles(fd.files, time)]]

\* the body of load_data_from_db(): None without database file, else the
\* rows of idr_disputes
load_data_from_db(st) ==
    IF st.exists THEN [kind |-> "DataFrame", rows |-> Len(st.table), data |-> st.table]
    ELSE [kind |-> "None", rows |-> 0, data |-> <<>>]

LegacyKey == CacheKey("load_data_from_db", "")

\* a cell of a column the record's file did not have: NaN after pd.concat
Cell(r, column) == IF column \in DOMAIN r THEN r[column] ELSE "NaN"

\* df.columns; the columns of a table without rows play no part, every
\* filter of such a table gives the table itself
Columns(data) == UNION {DOMAIN data[i] : i \in 1..Len(data)}

SpecialtyTop == 50

PayerTop == 30

RECURSIVE FirstUnique(_, _, _, _)
\* df[column].dropna().unique().tolist()[:n]: the first n values that occur
FirstUnique(rows, column, n, seen) ==
    IF rows = <<>> \/ Cardinality(seen) >= n THEN seen
    ELSE LET v == Cell(Head(rows), column)
         IN FirstUnique(Tail(rows), column, n,
                        IF v = "NaN" THEN seen ELSE seen \cup {v})

\* 'All' in the Quarter multiselect, whose other labels are pairs here
AllQuarters == <<0, 0>>

\* what the four multiselects may hold: any part of their options, which
\* are 'All' and the values of the column (the first 50 specialties, the
\* first 30 payers); a selection is unset when df lacks the column
Selections(data) ==
    LET options(column, n) ==
            IF column \in Columns(data)
            THEN SUBSET ({"All"} \cup FirstUnique(data, column, n, {}))
            ELSE {{"unset"}}
    IN [quarter : SUBSET ({AllQuarters} \cup {data[i].quarter : i \in 1..Len(data)}),
        specialty : options("specialty", SpecialtyTop),
        state : options("location", Len(data)),
        payer : options("payer", PayerTop)]

\* FilterRows that takes 'All' for one more value to look for
FilterRowsAllAsValue(rows, column, selected, all) ==
    SelectSeq(rows, LAMBDA r : Cell(r, column) \in selected)

\* if 'All' not in selected: filtered_df = filtered_df[filtered_df[column].isin(selected)]
FilterRows(rows, column, selected, all) ==
    IF all \in selected THEN rows
    ELSE SelectSeq(rows, LAMBDA r : Cell(r, column) \in selected)

\* 'Apply filters': the four filters one after the other on filtered_df, the
\* last three only when df has the column
ApplyFilters(data, selected) ==
    LET by_quarter == FilterRows(data, "quarter", selected.quarter, AllQuarters)
        by_specialty ==
            IF "specialty" \in Columns(data)
            THEN FilterRows(by_quarter, "specialty", selected.specialty, "All")
            ELSE by_quarter
        by_state ==
            IF "location" \in Columns(data)
            THEN FilterRows(by_specialty, "location", selected.state, "All")
            ELSE by_specialty
        by_payer ==
            IF "payer" \in Columns(data)
            THEN FilterRows(by_state, "payer", selected.payer, "All")
            ELSE by_state
    IN by_payer

\* DataAfterFilter for a filter that works on df itself
DataAfterFilterInPlace(data, filtered) == filtered

\* df after filtered_df = df.copy() was filtered
DataAfterFilter(data, filtered) == data

\* the sidebar's database status: if db_info
SidebarStatus(db_info) ==
    IF db_info.found THEN "Database Active" ELSE "No database found"

\* what load_data_from_db() gives the run: the cached value while it is
\* fresh, else the result of its body
LoadedData(db_info, st) ==
    IF ~db_info.found THEN <<>>
    ELSE IF Fresh(LegacyKey) THEN cache[LegacyKey].value.data
    ELSE load_data_from_db(st).data

\* the script from 'Load data' on: the data set through the cache, the
\* filters on a copy of it, and the tabs when rows are left; load tells
\* whether a load failed earlier in the run
RenderLegacy(db_info, st, selected, load) ==
    IF ~db_info.found
    THEN [view |-> [shown |-> "no database", load |-> load,
                    sidebar |-> SidebarStatus(db_info)], cache |-> cache,
          call |-> NoCall]
    ELSE LET hit == Fresh(LegacyKey)
             value == IF hit THEN cache[LegacyKey].value ELSE load_data_from_db(st)
             call == [key |-> LegacyKey, hit |-> hit,
                      requested |-> ~hit /\ st.exists, value |-> value]
             newCache == IF hit THEN cache ELSE Stored(LegacyKey, value)
         IN IF value.kind = "None"
            THEN [view |-> [shown |-> "no data", load |-> load,
                            sidebar |-> SidebarStatus(db_info)], cache |-> newCache,
                  call |-> call]
            ELSE LET filtered_df == ApplyFilters(value.data, selected)
                     df == DataAfterFilter(value.data, filtered_df)
                 IN [view |-> [shown |-> IF Len(filtered_df) > 0 THEN "tabs"
                                         ELSE "filters only",
                               df |-> df, filtered_df |-> filtered_df,
                               selected |-> selected, load |-> load,
                               sidebar |-> SidebarStatus(db_info)],
                     cache |-> newCache, call |-> call]

\* a load that leaves the cache as it is
ClearedCacheKept == cache

\* st.cache_data.clear()
ClearedCache == <<>>

\* a script run of the legacy dashboard without a click on a button
LegacyRender ==
    /\ variant = "legacy"
    /\ phase = "idle"
    /\ \E selected \in Selections(LoadedData(get_database_info(store), store)) :
         LET r == RenderLegacy(get_database_info(store), store, selected, "none")
         IN /\ view' = r.view
            /\ cache' = r.cache
            /\ last_call' = r.call
    /\ phase' = "rendered"
    /\ UNCHANGED <<variant, scorerVars, queryVars, loaderVars, now, resource, folder,
                   store, failed_calls>>

\* a script run with a click on 'Load Data from CSV Files' (no database
\* yet) or on 'Refresh Data from CSV Files': after a load that succeeds the
\* cache is cleared and the script reruns; after one that fails the run goes
\* on with the db_info it had
LegacyClick ==
    /\ variant = "legacy"
    /\ phase = "idle"
    /\ LET db_info == get_database_info(store)
           opened == IF db_info.found THEN store ELSE init_database(store)
           loaded == load_csv_to_database(folder, opened, now)
       IN IF loaded.ok
          THEN /\ store' = loaded.store
               /\ cache' = ClearedCache
               /\ failed_calls' = {}
               /\ view' = [shown |-> "rerun", load |-> "succeeded",
                           sidebar |-> SidebarStatus(db_info)]
               /\ last_call' = NoCall
               /\ phase' = "clicked"
          ELSE \E selected \in Selections(LoadedData(db_info, opened)) :
                 LET r == RenderLegacy(db_info, opened, selected, "failed")
                 IN /\ store' = opened
                    /\ view' = r.view
                    /\ cache' = r.cache
                    /\ failed_calls' = failed_calls
                    /\ last_call' = r.call
                    /\ phase' = "rendered"
    /\ UNCHANGED <<variant, scorerVars, queryVars, loaderVars, now, resource, folder>>

(***************************************************************************)
(* CSV download: table.to_csv(index=False) writes the header and the rows  *)
(* with the csv writer's minimal quoting and '\n' as line terminator.  A   *)
(* text is the sequence of its characters.  Whether the writer quotes a    *)
(* field for a carriage return alone depends on the Python release and on  *)
(* the platform's line terminator, so it is a choice of the export.  The   *)
(* reload is the tokenizer of pandas.read_csv with its defaults: '\n',     *)
(* '\r' and '\r\n' end a line outside quotes, blank lines are skipped, the  *)
(* first line is the header.                                               *)
(***************************************************************************)
LF == "\n"

CR == "\r"

DoubleQuote == "\""

Comma == ","

RECURSIVE DoubledQuotes(_)
\* doublequote=True: every quote character of the field written twice
DoubledQuotes(field) ==
    IF field = <<>> THEN <<>>
    ELSE (IF Head(field) = DoubleQuote THEN <<DoubleQuote, DoubleQuote>>
          ELSE <<Head(field)>>) \o DoubledQuotes(Tail(field))

\* QUOTE_MINIMAL: a field is quoted for the delimiter, the quote character
\* and the characters of the line terminator
NeedsQuote(field, quotes_cr) ==
    \E k \in 1..Len(field) :
        \/ field[k] \in {Comma, DoubleQuote, LF}
        \/ field[k] = CR /\ quotes_cr

WriteField(field, quotes_cr) ==
    IF NeedsQuote(field, quotes_cr)
    THEN <<DoubleQuote>> \o DoubledQuotes(field) \o <<DoubleQuote>>
    ELSE field

RECURSIVE JoinFields(_, _)
JoinFields(fields, quotes_cr) ==
    IF Len(fields) = 1 THEN WriteField(fields[1], quotes_cr)
    ELSE WriteField(Head(fields), quotes_cr) \o <<Comma>>
         \o JoinFields(Tail(fields), quotes_cr)

\* one line; a row of one empty field is written as a pair of quotes
WriteRow(fields, quotes_cr) ==
    (IF fields = << <<>> >> THEN <<DoubleQuote, DoubleQuote>>
     ELSE JoinFields(fields, quotes_cr)) \o <<LF>>

RECURSIVE WriteRows(_, _)
WriteRows(rows, quotes_cr) ==
    IF rows = <<>> THEN <<>>
    ELSE WriteRow(Head(rows), quotes_cr) \o WriteRows(Tail(rows), quotes_cr)

\* table.to_csv(index=False)
to_csv(table, quotes_cr) ==
    WriteRow(table.columns, quotes_cr) \o WriteRows(table.rows, quotes_cr)

RECURSIVE Tokenize(_, _, _, _, _, _)
\* the lines of fields of a CSV text, read from position i on
Tokenize(text, i, mode, field, row, lines) ==
    IF i > Len(text)
    THEN IF mode = "line start" THEN lines ELSE Append(lines, Append(row, field))
    ELSE LET c == text[i]
             endField == Tokenize(text, i + 1, "field start", <<>>, Append(row, field), lines)
             endLine == Tokenize(text, i + 1, "line start", <<>>, <<>>,
                                 Append(lines, Append(row, field)))
             more(m) == Tokenize(text, i + 1, m, Append(field, c), row, lines)
         IN CASE mode = "line start" ->
                   IF c \in {LF, CR} THEN Tokenize(text, i + 1, mode, field, row, lines)
                   ELSE IF c = DoubleQuote
                        THEN Tokenize(text, i + 1, "in quoted", field, row, lines)
                   ELSE IF c = Comma THEN endField
                   ELSE more("in field")
              [] mode = "field start" ->
                   IF c \in {LF, CR} THEN endLine
                   ELSE IF c = DoubleQuote
                        THEN Tokenize(text, i + 1, "in quoted", field, row, lines)
                   ELSE IF c = Comma THEN endField
                   ELSE more("in field")
              [] mode = "in field" ->
                   IF c \in {LF, CR} THEN endLine
                   ELSE IF c = Comma THEN endField
                   ELSE more("in field")
              [] mode = "in quoted" ->
                   IF c = DoubleQuote
                   THEN Tokenize(text, i + 1, "quote in quoted", field, row, lines)
                   ELSE more("in quoted")
              [] mode = "quote in quoted" ->
                   IF c = DoubleQuote THEN more("in quoted")
                   ELSE IF c \in {LF, CR} THEN endLine
                   ELSE IF c = Comma THEN endField
                   ELSE more("in field")

\* the table read back: the first line names the columns, the others are rows
read_csv(text) ==
    LET lines == Tokenize(text, 1, "line start", <<>>, <<>>, <<>>)
    IN [columns |-> Head(lines), rows |-> Tail(lines)]

\* provider names: plain, with a comma, a quote, a line feed, a carriage
\* return, and no name
ProviderNames ==
    { <<"a">>, <<"a", Comma, "b">>, <<"a", DoubleQuote, "b">>, <<"a", LF, "b">>,
      <<"a", CR, "b">>, <<>> }

MaxCsvRows == 2

\* a provider table of one or two columns
CsvTables ==
    UNION { { [columns |-> << <<"P", "r", "o", "v", "i", "d", "e", "r">> >>,
               rows |-> [k \in 1..n |-> <<names[k]>>]] :
                 names \in [1..n -> ProviderNames] }
            \cup
            { [columns |-> << <<"P", "r", "o", "v", "i", "d", "e", "r">>,
                              <<"T", "o", "t", "a", "l">> >>,
               rows |-> [k \in 1..n |-> <<names[k], <<"1">> >>]] :
                 names \in [1..n -> ProviderNames] }
            : n \in 0..MaxCsvRows }

\* a click on a download button, and the file read back
ExportCsv ==
    /\ phase = "idle"
    /\ \E table \in CsvTables, quotes_cr \in BOOLEAN :
         LET csv == to_csv(table, quotes_cr)
         IN view' = [shown |-> "download", table |-> table, quotes_cr |-> quotes_cr,
                     reloaded |-> read_csv(csv)]
    /\ phase' = "exported"
    /\ UNCHANGED <<variant, scorerVars, queryVars, loaderVars, keptVars, last_call>>

(***************************************************************************)
(* main of the summary dashboards: the overview and the five summary       *)
(* tables through the cache, then the error and return when there is no    *)
(* overview, else the sidebar and the tabs; a tab shows its table when the *)
(* table has rows.                                                        *)
(***************************************************************************)
SummaryTables ==
    {"load_provider_summaries", "load_state_summaries", "load_specialty_summaries",
     "load_payer_summaries", "load_quarterly_summaries"}

MainTabs ==
    {"Overview", "Providers", "States", "Specialties", "Payers", "Research", "Fraud Alerts"}

\* the cache after the values of the calls that missed were stored
StoredAll(values) ==
    [k \in DOMAIN cache \cup DOMAIN values |->
        IF k \in DOMAIN values THEN [value |-> values[k], at |-> now] ELSE cache[k]]

\* a guard that never takes the early return
OverviewMissingNever(overview) == FALSE

\* if overview is None
OverviewMissing(overview) == overview.kind = "None"

\* len(table) > 0 guards every use of a summary table in the tabs
ShownTables(tables) == {t \in DOMAIN tables : tables[t].rows > 0}

\* one script run of main
RenderMain ==
    /\ variant \in SummaryScorers
    /\ phase = "idle"
    /\ \E env \in Environments, outcomes \in [{"load_overview"} \cup SummaryTables -> CachedOutcomes] :
         LET client == CachedClient(env)
             called == {"load_overview"} \cup SummaryTables
             missed == {fn \in called : ~Fresh(CacheKey(fn, ""))}
             value(fn) == IF fn \in missed
                          THEN LET r == LoaderBody(fn, client, outcomes[fn])
                               IN [kind |-> r.kind, rows |-> r.rows]
                          ELSE cache[CacheKey(fn, "")].value
             overview == value("load_overview")
             tables == [t \in SummaryTables |-> value(t)]
         IN /\ resource' = client
            /\ cache' = StoredAll([k \in {CacheKey(fn, "") : fn \in missed} |-> value(k[1])])
            /\ failed_calls' = Failures({CacheKey(fn, "") : fn \in missed}, client,
                                        [k \in {CacheKey(fn, "") : fn \in missed} |->
                                            outcomes[k[1]]])
            /\ view' = IF OverviewMissing(overview)
                       THEN [shown |-> "error", overview |-> overview.kind, sidebar |-> FALSE,
                             tabs |-> {}, tables |-> {}, empty |-> {}, raised |-> "none"]
                       ELSE [shown |-> "tabs", overview |-> overview.kind, sidebar |-> TRUE,
                             tabs |-> MainTabs, tables |-> ShownTables(tables),
                             empty |-> SummaryTables \ ShownTables(tables),
                             raised |-> IF overview.kind = "None" THEN "TypeError"
                                        ELSE "none"]
    /\ phase' = "main"
    /\ UNCHANGED <<variant, scorerVars, queryVars, loaderVars, now, folder, store, last_call>>

(***************************************************************************)
(* The Fraud Alerts tab of the legacy dashboard.  top_providers are the    *)
(* providers of filtered_df by falling number of records; each is scored   *)
(* on its own records.                                                     *)
(***************************************************************************)
TopProviders == 50

HighRiskMinScore == 45

MaxProviders == 2

\* the records of one provider in the tab: an offer and a dispute type per
\* record, ten records or one more than the high-volume limit
TabFrames ==
    {df \in ProviderFrames :
        /\ df.len \in {10, LegacyHighVolume + 1}
        /\ DOMAIN df.cols = {OfferCol, TypeCol}}

\* value_counts(): the providers by falling number of records, at least one
TabProviders ==
    UNION { {ps \in [1..n -> TabFrames] :
                \A k \in 1..(n - 1) : ps[k].len >= ps[k + 1].len}
            : n \in 1..MaxProviders }

\* head(50)
Head50(ps) == SubSeq(ps, 1, Min2(TopProviders, Len(ps)))

\* the entry of high_risk_providers for the provider at position k
RiskEntry(ps, k) ==
    LET r == calculate_fraud_flags(ps[k])
    IN [Provider |-> k, RiskScore |-> r.risk_score, TotalDisputes |-> ps[k].len,
        Flags |-> Len(r.flags)]

RECURSIVE HighRisk(_, _)
\* high_risk_providers: the providers from position k on with risk_score >= 45
HighRisk(ps, k) ==
    IF k > Len(ps) THEN <<>>
    ELSE (IF RiskEntry(ps, k).RiskScore >= HighRiskMinScore THEN <<RiskEntry(ps, k)>>
          ELSE <<>>) \o HighRisk(ps, k + 1)

\* sort_values('Risk Score', ascending=False): the orders of the rows by
\* falling score; rows of equal score come in any order
SortedByScore(rows) ==
    { [k \in 1..Len(rows) |-> rows[f[k]]] :
        f \in { g \in [1..Len(rows) -> 1..Len(rows)] :
                  /\ \A a, b \in 1..Len(rows) : a # b => g[a] # g[b]
                  /\ \A a \in 1..(Len(rows) - 1) :
                        rows[g[a]].RiskScore >= rows[g[a + 1]].RiskScore } }

\* the script run that renders the Fraud Alerts tab: pd.DataFrame([]) has no
\* column 'Risk Score', and sort_values on it raises KeyError
FraudAlertsTab ==
    /\ variant = "legacy"
    /\ phase = "idle"
    /\ \E has_names \in BOOLEAN, ps \in TabProviders :
         IF ~has_names
         THEN view' = [shown |-> "fraud alerts", has_names |-> FALSE, providers |-> <<>>,
                       risk_df |-> <<>>, raised |-> "none", message |-> "none"]
         ELSE LET high_risk_providers == HighRisk(Head50(ps), 1)
              IN IF high_risk_providers = <<>>
                 THEN view' = [shown |-> "fraud alerts", has_names |-> TRUE,
                               providers |-> ps, risk_df |-> <<>>,
                               raised |-> "KeyError", message |-> "none"]
                 ELSE \E risk_df \in SortedByScore(high_risk_providers) :
                        view' = [shown |-> "fraud alerts", has_names |-> TRUE,
                                 providers |-> ps, risk_df |-> risk_df,
                                 raised |-> "none",
                                 message |-> IF Len(risk_df) > 0
                                             THEN "HIGH-RISK PROVIDERS DETECTED"
                                             ELSE "No high-risk providers detected"]
    /\ phase' = "tab"
    /\ UNCHANGED <<variant, scorerVars, queryVars, loaderVars, keptVars, last_call>>

(***************************************************************************)
(* The script run.                                                         *)
(***************************************************************************)
NoInput == [len |-> 0, cols |-> <<>>]

\* the revisions of the dashboard: the legacy one over a local database
\* and the three over summary tables of the backend
Variants == {"legacy"} \cup SummaryScorers

InitRun ==
    /\ variant \in Variants
    /\ phase = "idle"
    /\ scorer = "none"
    /\ input = NoInput
    /\ flags = <<>>
    /\ risk_score = 0
    /\ score_error = "none"
    /\ payer_named = <<>>
    /\ query = "none"
    /\ supabase = "None"
    /\ matching = 0
    /\ max_rows = 0
    /\ offset = 0
    /\ all_data = <<>>
    /\ requests = 0
    /\ windows = <<>>
    /\ last_response = 0
    /\ query_result = "none"
    /\ page_failed = FALSE
    /\ loader = "none"
    /\ remote = NotCalled
    /\ load_result = [kind |-> "none", rows |-> 0]
    /\ load_requests = 0
    /\ now = 0
    /\ resource = "unset"
    /\ cache = <<>>
    /\ failed_calls = {}
    /\ last_call = NoCall
    /\ store = NoStore
    /\ view = NoView

\* the dashboards started without a data folder
Init == InitRun /\ folder = NoFolder

\* the dashboards started, the legacy one next to some data folder
InitDash ==
    /\ InitRun
    /\ folder \in (IF variant = "legacy" THEN Folders ELSE {NoFolder})

\* the legacy dashboard scores the row-set of one provider
ScoreLegacy ==
    /\ variant = "legacy"
    /\ phase = "idle"
    /\ \E df \in ProviderFrames :
         LET r == calculate_fraud_flags(df)
         IN /\ input' = df
            /\ flags' = r.flags
            /\ risk_score' = r.risk_score
            /\ score_error' = r.error
            /\ payer_named' = r.payer
    /\ scorer' = "legacy"
    /\ phase' = "scored"
    /\ UNCHANGED <<variant, queryVars, loaderVars, keptVars, runVars>>

\* a summary dashboard scores one row of providers_df in its loop
ScoreSummaryRow ==
    /\ variant \in SummaryScorers
    /\ phase = "idle"
    /\ \E row \in SummaryRows :
         LET r == ScoreSummary(variant, row)
         IN /\ scorer' = variant
            /\ input' = row
            /\ flags' = r.flags
            /\ risk_score' = r.risk_score
            /\ score_error' = r.error
            /\ payer_named' = <<>>
            /\ view' = [shown |-> IF r.error = "none" THEN "flagged list"
                                  ELSE "error",
                        flagged |-> FlaggedList(variant, row)]
    /\ phase' = "scored"
    /\ UNCHANGED <<variant, queryVars, loaderVars, keptVars, last_call>>

\* the next script run starts with fresh locals
Rerun ==
    /\ phase # "idle"
    /\ phase' = "idle"
    /\ scorer' = "none"
    /\ input' = NoInput
    /\ flags' = <<>>
    /\ risk_score' = 0
    /\ score_error' = "none"
    /\ payer_named' = <<>>
    /\ query' = "none"
    /\ supabase' = "None"
    /\ matching' = 0
    /\ max_rows' = 0
    /\ offset' = 0
    /\ all_data' = <<>>
    /\ requests' = 0
    /\ windows' = <<>>
    /\ last_response' = 0
    /\ query_result' = "none"
    /\ page_failed' = FALSE
    /\ loader' = "none"
    /\ remote' = NotCalled
    /\ load_result' = [kind |-> "none", rows |-> 0]
    /\ load_requests' = 0
    /\ last_call' = NoCall
    /\ view' = NoView
    /\ UNCHANGED <<variant, keptVars>>

Next ==
    \/ ScoreLegacy
    \/ ScoreSummaryRow
    \/ query_by_provider
    \/ query_by_state
    \/ query_by_specialty
    \/ LoadOverview
    \/ LoadSummaries
    \/ Rerun

Spec == Init /\ [][Next]_vars

\* the while loop of a query runs on: the script is single threaded and a
\* request blocks until it answers or raises
PageStep == \E kind \in {"provider", "state", "specialty"} : QueryPage(kind)

FairSpec == Spec /\ WF_vars(PageStep)

\* the dashboards with what outlives a script run
NextDash ==
    \/ Tick
    \/ CachedLoad
    \/ LegacyRender
    \/ LegacyClick
    \/ Rerun

SpecDash == InitDash /\ [][NextDash]_vars

\* main of the summary dashboards alone
NextMain ==
    \/ RenderMain
    \/ Rerun

SpecMain == Init /\ [][NextMain]_vars

\* the Fraud Alerts tab alone
NextTab ==
    \/ FraudAlertsTab
    \/ Rerun

SpecTab == Init /\ [][NextTab]_vars

\* the downloads alone
NextCsv ==
    \/ ExportCsv
    \/ Rerun

SpecCsv == Init /\ [][NextCsv]_vars

\* the queries against a backend that caps a response below the window
query_capped ==
    \E kind \in {"provider", "state", "specialty"} : QueryStart(kind, SmallCaps)

NextCapped == Next \/ query_capped

SpecCapped == Init /\ [][NextCapped]_vars

(***************************************************************************)
(* Properties of the scorers.                                              *)
(***************************************************************************)
Scored == phase = "scored"

IsLegacy == scorer = "legacy"

IsSummary == scorer \in SummaryScorers

HasLabel(l) == \E i \in 1..Len(flags) : flags[i] = l

BatchLabels == {"BATCH ABUSER", "BATCH EXPLOITATION"}

MultiStateLabels == {"MULTI-STATE", "MULTI-JURISDICTION", "MULTI-STATE OPERATION"}

WinRateLabels == {"ABNORMAL WIN RATE", "ANOMALOUS WIN RATE"}

\* the points a summary scorer gives for a label
LabelPoints(l) ==
    CASE l = "EXTREME VOLUME" -> 30
      [] l = "HIGH VOLUME" -> 15
      [] l \in BatchLabels -> 20
      [] l \in MultiStateLabels -> 15
      [] l \in WinRateLabels -> 10

RECURSIVE SumLabelPoints(_)
SumLabelPoints(fl) ==
    IF fl = <<>> THEN 0 ELSE LabelPoints(Head(fl)) + SumLabelPoints(Tail(fl))

\* the score is the sum of the points of the labels in the flag list
ScoreMatchesLabels ==
    IF IsLegacy THEN risk_score = 15 * Len(flags)
    ELSE risk_score = SumLabelPoints(flags)

AllFieldsPresent == OptionalFields \subseteq DOMAIN input

\* the number of dispute records of the provider scored
TotalDisputes == IF IsLegacy THEN input.len ELSE input["total_disputes"]

\* the labels other than the volume label that the legacy scorer can emit
LegacyOtherLabels ==
    {"EXTREME PRICING", "BATCH ABUSER", "VOLUME SPIKE", "MULTI-STATE OPERATION",
     "PAYER TARGETING"}

\* no rule but a volume rule fires on the input
NoOtherRiskFactor ==
    IF IsLegacy
    THEN \A l \in LegacyOtherLabels : ~HasLabel(l)
    ELSE /\ AllFieldsPresent
         /\ input["batch_rate"] <= 90
         /\ input["states_count"] <= 10
         /\ input["win_rate"] <= 95

\* C1: the risk score of every scorer is an integer in 0..100
C1_ScoreInRange == Scored => risk_score \in 0..100

C1_Witness == Scored /\ IsLegacy /\ Len(flags) = 6 /\ risk_score = 90

BatchRateAtMost90 ==
    IF IsLegacy
    THEN TypeCol \in DOMAIN input.cols /\ BatchedCount(input) * 100 <= 90 * input.len
    ELSE "batch_rate" \in DOMAIN input /\ input["batch_rate"] <= 90

\* C3: a batch rate of at most 90% (90% included) never gets the batch label
\* nor the points of the batch rule, in any scorer
C3_NoBatchLabel ==
    (Scored /\ BatchRateAtMost90) =>
        /\ \A l \in BatchLabels : ~HasLabel(l)
        /\ ScoreMatchesLabels

C3_Witness ==
    /\ Scored /\ IsLegacy /\ TypeCol \in DOMAIN input.cols
    /\ BatchedCount(input) * 100 = 90 * input.len
    /\ ~HasLabel("BATCH ABUSER")

VolumeLabelCount ==
    Cardinality({i \in 1..Len(flags) : flags[i] \in {"EXTREME VOLUME", "HIGH VOLUME"}})

RuleLabels ==
    IF scorer = "rev4"
    THEN <<"EXTREME VOLUME", "HIGH VOLUME", "BATCH EXPLOITATION",
           "MULTI-JURISDICTION", "ANOMALOUS WIN RATE">>
    ELSE <<"EXTREME VOLUME", "HIGH VOLUME", "BATCH ABUSER", "MULTI-STATE",
           "ABNORMAL WIN RATE">>

OneIf(cond, x) == IF cond THEN <<x>> ELSE <<>>

\* the flag list the rules give for a row, a rule of an absent field skipped
ExpectedFlags ==
    OneIf(input["total_disputes"] > 10000, RuleLabels[1])
    \o OneIf(input["total_disputes"] > 1000 /\ input["total_disputes"] <= 10000,
             RuleLabels[2])
    \o OneIf("batch_rate" \in DOMAIN input /\ input["batch_rate"] > 90, RuleLabels[3])
    \o OneIf("states_count" \in DOMAIN input /\ input["states_count"] > 10,
             RuleLabels[4])
    \o OneIf("win_rate" \in DOMAIN input /\ input["win_rate"] > 95, RuleLabels[5])

\* the score the rules give for a row with every field
ExpectedScore ==
    (IF input["total_disputes"] > 10000 THEN 30
     ELSE IF input["total_disputes"] > 1000 THEN 15 ELSE 0)
    + (IF input["batch_rate"] > 90 THEN 20 ELSE 0)
    + (IF input["states_count"] > 10 THEN 15 ELSE 0)
    + (IF input["win_rate"] > 95 THEN 10 ELSE 0)

\* C6: the summary-row score is the sum of the points of exactly the rules
\* that fire, every comparison strict, with one label per fired rule
C6_ScoreIsSumOfRules ==
    (Scored /\ IsSummary /\ AllFieldsPresent) =>
        /\ risk_score = ExpectedScore
        /\ flags = ExpectedFlags

C6_Witness ==
    /\ Scored /\ scorer = "rev2" /\ AllFieldsPresent
    /\ input["total_disputes"] = 10000 /\ input["batch_rate"] = 91
    /\ input["states_count"] = 10 /\ input["win_rate"] = 96
    /\ risk_score = 45

\* the flag list of the legacy scorer, a rule of an absent column skipped
LegacyExpectedFlags ==
    LegacyVolumeFlag(input) \o LegacyPricingFlag(input) \o LegacyBatchFlag(input)
    \o LegacySpikeFlag(input) \o LegacyMultiStateFlag(input)
    \o LegacyPayerFlag(input)

\* C7 as claimed: scoring has no error outcome; with a field absent the rule
\* that reads it is skipped and the other rules are evaluated as usual
C7_Claim ==
    Scored =>
        /\ score_error = "none"
        /\ IsSummary => flags = ExpectedFlags
        /\ IsLegacy => flags = LegacyExpectedFlags

(***************************************************************************)
(* Properties of the paginated queries and of the loaders.                 *)
(***************************************************************************)
Returned == phase = "returned"

Connected == supabase = "client"

\* C4: against an unchanging backend with N matching rows a paginated query
\* returns exactly N rows, for N = 0, N a multiple of 1000 and N not one
C4_ReturnsAllRows ==
    (Returned /\ Connected) => RowCount(all_data) = matching

C4_Witness ==
    /\ Returned /\ Connected /\ query = "state"
    /\ matching = 2 * batch_size /\ RowCount(all_data) = 2 * batch_size
    /\ requests = 3

\* C8 as claimed: when a page request fails the query yields an empty result
\* set to its caller and no exception escapes
C8_Claim ==
    page_failed =>
        /\ query_result = "DataFrame"
        /\ phase = "returned"
        /\ RowCount(all_data) = 0

\* the result a loader gives for nothing: None for load_overview, an empty
\* frame for the others
EmptyResult ==
    IF loader = "load_overview" THEN [kind |-> "None", rows |-> 0]
    ELSE [kind |-> "DataFrame", rows |-> 0]

\* C9: a loader turns a missing client or a failing remote call into its
\* empty result (load_overview also a table without row), lets no exception
\* escape and calls the backend at most once
C9_LoadersNeverRaise ==
    phase = "loaded" =>
        /\ load_result.kind # "exception"
        /\ load_requests <= 1
        /\ ~Connected => load_result = EmptyResult /\ load_requests = 0
        /\ (Connected /\ ~remote.ok) => load_result = EmptyResult
        /\ (Connected /\ remote.ok /\ remote.rows = 0) => load_result = EmptyResult
        /\ (Connected /\ remote.ok /\ remote.rows > 0) =>
              /\ load_result.rows = (IF loader = "load_overview" THEN 1 ELSE remote.rows)
              /\ load_result.kind = (IF loader = "load_overview" THEN "dict" ELSE "DataFrame")

C9_Witness ==
    /\ phase = "loaded" /\ loader = "search_providers" /\ Connected
    /\ ~remote.ok /\ load_result = [kind |-> "DataFrame", rows |-> 0]
    /\ load_requests = 1

\* every response accumulated so far filled its window
AllPagesFull == \A i \in 1..Len(all_data) : all_data[i].count = batch_size

\* while the loop runs every response so far was a full page, and a query
\* that returned made floor(N / 1000) + 1 requests, only the last of them
\* answered with less than a full page
RequestsExact ==
    /\ phase = "querying" => AllPagesFull /\ requests = Len(all_data)
    /\ (Returned /\ Connected) =>
          /\ requests = matching \div batch_size + 1
          /\ last_response < batch_size
          /\ \A i \in 1..(Len(all_data) - 1) : all_data[i].count = batch_size
    /\ (Returned /\ ~Connected) => requests = 0

\* C10: the loop of a paginated query terminates; it stops right after the
\* first response that is empty or shorter than 1000 rows and has then made
\* exactly floor(N / 1000) + 1 requests
C10_Terminates ==
    /\ []RequestsExact
    /\ (phase = "querying") ~> (phase # "querying")

C10_Witness ==
    /\ Returned /\ Connected /\ matching = batch_size
    /\ requests = 2 /\ last_response = 0 /\ Len(all_data) = 1

\* the i-th request asks for the i-th window of batch_size rows
WindowsContiguous ==
    \A i \in 1..Len(windows) :
        windows[i] = <<(i - 1) * batch_size, i * batch_size - 1>>

\* the i-th part of the result is the answer to the i-th request
ConcatenatedInOrder ==
    /\ Len(all_data) <= Len(windows)
    /\ \A i \in 1..Len(all_data) : all_data[i].first = windows[i][1]

\* the parts of the result that hold row r of the backend
PartsWithRow(r) ==
    {i \in 1..Len(all_data) :
        all_data[i].first <= r /\ r < all_data[i].first + all_data[i].count}

\* C11: the windows requested are [0,999], [1000,1999], ... in this order,
\* the result is the answers in request order, and against an unchanging,
\* stably ordered backend each matching row is in the result exactly once
C11_EachRowOnce ==
    (phase \in {"querying", "returned", "raised"}) =>
        /\ WindowsContiguous
        /\ ConcatenatedInOrder
        /\ (Returned /\ Connected) =>
              /\ \A r \in 0..(matching - 1) : Cardinality(PartsWithRow(r)) = 1
              /\ RowCount(all_data) = matching

C11_Witness ==
    /\ Returned /\ Connected /\ matching = 2 * batch_size + 1
    /\ Len(all_data) = 3 /\ windows[3] = <<2000, 2999>>
    /\ all_data[3] = [first |-> 2000, count |-> 1]

\* C18 as claimed: whatever the number of rows the backend returns per
\* request at most, a query that returns has accumulated all matching rows
C18_Claim ==
    (Returned /\ Connected /\ max_rows > 0) =>
        \A r \in 0..(matching - 1) : PartsWithRow(r) # {}


(***************************************************************************)
(* C12: a cached loader called with an argument it was called with less    *)
(* than ttl seconds ago returns the stored value and sends nothing; called *)
(* with another argument, or ttl seconds or more after the value was       *)
(* stored, it runs its body, which sends a request when it has a client    *)
(* (a database file, for the legacy loader).                               *)
(***************************************************************************)
StoredWithinTtl(key) == key \in DOMAIN cache /\ now - cache[key].at < ttl

CanRequest == IF variant = "legacy" THEN store'.exists ELSE resource' = "client"

\* C12: within the TTL the same argument is served from the cache without a
\* request; a different argument or an expired entry runs the loader again
C12_CachedWithinTtl ==
    [][(phase = "idle" /\ phase' \in {"called", "rendered"} /\ last_call' # NoCall) =>
         LET key == last_call'.key
         IN IF StoredWithinTtl(key)
            THEN /\ last_call'.hit
                 /\ ~last_call'.requested
                 /\ last_call'.value = cache[key].value
                 /\ cache' = cache
            ELSE /\ ~last_call'.hit
                 /\ CanRequest => last_call'.requested
                 /\ key \in DOMAIN cache'
                 /\ cache'[key] = [value |-> last_call'.value, at |-> now]]_vars

\* a state provider list served from the cache one second before it expires,
\* while the list of the other state is older than the TTL
C12_Witness ==
    /\ phase = "called"
    /\ last_call.key = <<"load_state_providers", "CA">>
    /\ last_call.hit
    /\ now - cache[last_call.key].at = ttl - 1
    /\ <<"load_state_providers", "TX">> \in DOMAIN cache
    /\ now - cache[<<"load_state_providers", "TX">>].at >= ttl


(***************************************************************************)
(* C13: what the dashboard writes.  The CSV files are never written, and   *)
(* the filters leave the loaded data set as the cache returned it; the one *)
(* write is the legacy load or refresh, which replaces the table           *)
(* idr_disputes by the records read from the files, stamped with the time  *)
(* of the load.                                                            *)
(***************************************************************************)
ShowsData == phase' = "rendered" /\ view'.shown \in {"tabs", "filters only"}

\* C13 as stated: once dispute records are stored, no interaction, data
\* refresh included, changes them
C13_Claim ==
    [][/\ folder' = folder
       /\ store.exists => store'.table = store.table]_vars

\* C13: the files are never changed, filtering leaves the loaded data set
\* unchanged, and the stored records change only by a load or refresh that
\* replaces the whole table with the records of the files
C13_OnlyLoadReplaces ==
    [][/\ folder' = folder
       /\ ShowsData =>
            /\ view'.df = last_call'.value.data
            /\ cache'[LegacyKey].value.data = view'.df
            /\ \A i \in 1..Len(view'.filtered_df) :
                 \E j \in 1..Len(view'.df) : view'.df[j] = view'.filtered_df[i]
       /\ store' # store =>
            /\ variant = "legacy"
            /\ \/ /\ phase' = "clicked"
                  /\ store'.table = ReadFiles(folder.files, now)
                  /\ store'.table # <<>> \/ \E i \in 1..Len(folder.files) :
                                                folder.files[i].readable
               \/ /\ ~store.exists
                  /\ store' = [exists |-> TRUE, table |-> <<>>]]_vars

\* a filtered view of records that a load after the start stored: the filter
\* dropped a record and the loaded data set still has it
C13_Witness ==
    /\ phase = "rendered"
    /\ view.shown = "tabs"
    /\ Len(view.filtered_df) < Len(view.df)
    /\ view.df = store.table
    /\ store.table[1].data_loaded_at > 0


(***************************************************************************)
(* C14: the quarter label of a stored record, restated over the set of     *)
(* years and of quarter marks that occur in the file name in any case.     *)
(***************************************************************************)
OccursAnyCase(name, pat) ==
    \E i \in 1..(Len(name) - Len(pat) + 1) :
        \A k \in 1..Len(pat) : LowerChar(name[i + k - 1]) = pat[k]

YearsIn(name) == {y \in 2022..2025 : OccursAnyCase(name, YearText(y))}

MarksIn(name) == {n \in 1..4 : OccursAnyCase(name, QuarterText(n))}

Least(S) == CHOOSE x \in S : \A y \in S : x <= y

LabelOfName(name) ==
    <<IF MarksIn(name) = {} THEN UnknownQuarter ELSE Least(MarksIn(name)),
      IF YearsIn(name) = {} THEN UnknownYear ELSE Least(YearsIn(name))>>

\* C14: every stored record carries the label of its file, which is the
\* first quarter mark and the first year that the lower-cased name contains
C14_QuarterFromFileName ==
    /\ \A i \in 1..Len(store.table) :
         store.table[i].quarter = LabelOfName(store.table[i].file)
    /\ \A i, j \in 1..Len(store.table) :
         store.table[i].file = store.table[j].file =>
             store.table[i].quarter = store.table[j].quarter

\* the two records of IDR_2023_Q1.csv stored as 'Q1 2023' next to the record
\* of 2024q4.csv stored as 'Q4 2024'
C14_Witness ==
    /\ Len(store.table) = 3
    /\ store.table[1].file = Name_IDR_2023_Q1
    /\ store.table[1].quarter = <<1, 2023>>
    /\ store.table[2].quarter = <<1, 2023>>
    /\ store.table[3].quarter = <<4, 2024>>


(***************************************************************************)
(* C15: the spike rule against the order of the quarters in time.          *)
(***************************************************************************)
EarlierQuarter(a, b) == a[2] < b[2] \/ (a[2] = b[2] /\ a[1] < b[1])

RECURSIVE ChronologicalQuarters(_)
ChronologicalQuarters(S) ==
    IF S = {} THEN <<>>
    ELSE LET m == CHOOSE x \in S : \A y \in S \ {x} : EarlierQuarter(x, y)
         IN <<m>> \o ChronologicalQuarters(S \ {m})

ChronologicalSpike(df) ==
    /\ QuarterCol \in DOMAIN df.cols
    /\ LET counts == df.cols[QuarterCol].counts
           qs == ChronologicalQuarters(DOMAIN counts)
       IN \E i \in 2..Len(qs) : counts[qs[i]] > 3 * counts[qs[i - 1]]

\* C15: VOLUME SPIKE exactly when some quarter with records has more than
\* three times the records of the quarter with records before it in time
C15_Claim ==
    (Scored /\ IsLegacy) => (HasLabel("VOLUME SPIKE") <=> ChronologicalSpike(input))


(***************************************************************************)
(* C16: the payer rule.                                                    *)
(***************************************************************************)
PayerRows(df, p) == df.cols[PayerCol].counts[p]

\* the payers that have more than four fifths of all rows of the frame
PayersOver80(df) ==
    IF PayerCol \in DOMAIN df.cols
    THEN {p \in DOMAIN df.cols[PayerCol].counts : 5 * PayerRows(df, p) > 4 * df.len}
    ELSE {}

\* C16: PAYER TARGETING exactly when one payer has more than 80% of all rows,
\* rows without payer counted, and the flag names that payer, the most
\* frequent one
C16_PayerTargeting ==
    (Scored /\ IsLegacy) =>
        /\ HasLabel("PAYER TARGETING") <=> PayersOver80(input) # {}
        /\ HasLabel("PAYER TARGETING") =>
              /\ Len(payer_named) = 1
              /\ payer_named[1] \in PayersOver80(input)
              /\ \A q \in DOMAIN input.cols[PayerCol].counts :
                    PayerRows(input, q) <= PayerRows(input, payer_named[1])
        /\ ~HasLabel("PAYER TARGETING") => payer_named = <<>>

\* P1 named with 9 of 10 rows, the tenth row without payer
C16_Witness ==
    /\ Scored /\ IsLegacy
    /\ HasLabel("PAYER TARGETING")
    /\ payer_named = <<"P1">>
    /\ input.len = 10
    /\ input.cols[PayerCol].nulls = 1


(***************************************************************************)
(* C17: the CSV round trip.                                                *)
(***************************************************************************)
Exported == phase = "exported"

NamesOf(columns) == {columns[k] : k \in 1..Len(columns)}

\* C17: a table exported and read back has the same number of rows and the
\* same set of column names, whatever the provider names contain
C17_Claim ==
    Exported =>
        /\ Len(view.reloaded.rows) = Len(view.table.rows)
        /\ NamesOf(view.reloaded.columns) = NamesOf(view.table.columns)


(***************************************************************************)
(* C19: main without overview.                                             *)
(***************************************************************************)
MainRan == phase = "main"

\* C19: without overview main shows the error and neither sidebar nor tabs;
\* the tabs are rendered only with an overview, and then an empty summary
\* table shows nothing and raises nothing
C19_NoOverviewNoTabs ==
    MainRan =>
        /\ cache[<<"load_overview", "">>].value.kind = view.overview
        /\ view.overview = "None" =>
              view.shown = "error" /\ ~view.sidebar /\ view.tabs = {}
        /\ view.tabs # {} =>
              /\ view.overview = "dict"
              /\ view.sidebar
              /\ view.raised = "none"
              /\ \A t \in SummaryTables :
                    cache[<<t, "">>].value.rows = 0 => t \notin view.tables

\* no overview although the client is there and the provider summaries have
\* rows: the error, and neither sidebar nor tabs
C19_Witness ==
    /\ MainRan
    /\ view.overview = "None"
    /\ view.shown = "error"
    /\ resource = "client"
    /\ cache[<<"load_provider_summaries", "">>].value.rows > 0


(***************************************************************************)
(* C20: the Fraud Alerts tab.                                              *)
(***************************************************************************)
TabRan == phase = "tab" /\ view.has_names

ScoreAt(k) == calculate_fraud_flags(view.providers[k]).risk_score

ReachesHighRisk == {k \in 1..Min2(TopProviders, Len(view.providers)) : ScoreAt(k) >= 45}

\* C20: no provider at 45 or more gives the message and no error; else the
\* table holds the providers at 45 or more, by falling score
C20_Claim ==
    TabRan =>
        /\ ReachesHighRisk = {} =>
              /\ view.raised = "none"
              /\ view.message = "No high-risk providers detected"
        /\ ReachesHighRisk # {} =>
              /\ view.raised = "none"
              /\ {view.risk_df[i].Provider : i \in 1..Len(view.risk_df)} = ReachesHighRisk
              /\ Len(view.risk_df) = Cardinality(ReachesHighRisk)
              /\ \A i \in 1..(Len(view.risk_df) - 1) :
                    view.risk_df[i].RiskScore >= view.risk_df[i + 1].RiskScore


(***************************************************************************)
(* C21: the empty result of a failed remote call is cached like any other. *)
(***************************************************************************)
CallStep == phase = "idle" /\ phase' = "called"

EmptyValue(v) == v.rows = 0 /\ v.kind \in {"None", "DataFrame"}

\* C21: a call that fails stores its empty result; while that result is
\* younger than the ttl the same call returns it without a request,
\* whatever the backend would answer, and the first call at or after the
\* ttl sends a request again
C21_FailureCached ==
    [][CallStep =>
         LET key == last_call'.key
         IN /\ (key \in failed_calls' /\ ~last_call'.hit) =>
                  /\ last_call'.requested
                  /\ EmptyValue(last_call'.value)
                  /\ key \in DOMAIN cache'
                  /\ cache'[key] = [value |-> last_call'.value, at |-> now]
            /\ (key \in failed_calls /\ key \in DOMAIN cache) =>
                  IF now - cache[key].at < ttl
                  THEN /\ last_call'.hit
                       /\ ~last_call'.requested
                       /\ EmptyValue(last_call'.value)
                       /\ key \in failed_calls'
                       /\ cache' = cache
                  ELSE /\ ~last_call'.hit
                       /\ last_call'.requested]_vars

\* the empty provider list of a state served from the cache one second
\* before the failed call that made it is an hour old
C21_Witness ==
    /\ phase = "called"
    /\ last_call.hit
    /\ last_call.key = <<"load_state_providers", "CA">>
    /\ last_call.key \in failed_calls
    /\ last_call.value.rows = 0
    /\ now - cache[last_call.key].at = ttl - 1


(***************************************************************************)
(* C22: the cache around a load or refresh.                                *)
(***************************************************************************)
LegacyStep == variant = "legacy" /\ phase = "idle" /\ phase' \in {"clicked", "rendered"}

\* C22: a load that succeeds clears the cache and reruns, so a render shows
\* the table as stored and never an older cached data set; a load that fails
\* clears nothing and the run goes on to render
C22_ClearBeforeRerun ==
    [][LegacyStep =>
         /\ view'.load = "succeeded" =>
               /\ cache' = <<>>
               /\ view'.shown = "rerun"
               /\ phase' = "clicked"
         /\ view'.load = "failed" =>
               /\ phase' = "rendered"
               /\ view'.shown # "rerun"
               /\ \A k \in DOMAIN cache : k \in DOMAIN cache'
               /\ StoredWithinTtl(LegacyKey) => cache' = cache
         /\ ShowsData => view'.df = store'.table]_vars

\* a render after a load later than the start: the data set is read anew
\* and is the table stored by that load
C22_Witness ==
    /\ phase = "rendered"
    /\ view.shown = "tabs"
    /\ view.load = "none"
    /\ ~last_call.hit
    /\ last_call.requested
    /\ now > 0
    /\ store.table[1].data_loaded_at = now
    /\ view.df = store.table


(***************************************************************************)
(* C23: the database status of the sidebar.                                *)
(***************************************************************************)
LegacyRan == variant = "legacy" /\ phase \in {"clicked", "rendered"}

\* load_csv_to_database succeeds on this folder
Loadable(fd) == fd.exists /\ \E i \in 1..Len(fd.files) : fd.files[i].readable

\* C23: the sidebar says 'Database Active' only when the table was stored by
\* a load that succeeded; where every load fails, every render says
\* 'No database found'
C23_Claim ==
    LegacyRan =>
        /\ ~Loadable(folder) => view.sidebar = "No database found"
        /\ view.sidebar = "Database Active" =>
              \E t \in 0..now : store.table = ReadFiles(folder.files, t)


(***************************************************************************)
(* C24: what load_csv_to_database stores.                                  *)
(***************************************************************************)
ReadableFiles(fd) == {i \in 1..Len(fd.files) : fd.files[i].readable}

RecordsOf(table, name) == {k \in 1..Len(table) : table[k].file = name}

\* the position in the folder of the file a record came from
FileIndex(fd, name) == CHOOSE i \in 1..Len(fd.files) : fd.files[i].name = name

\* C24: a load fails exactly without a file that reads and then leaves the
\* table as it was; a load that succeeds leaves exactly the records of the
\* files that read, file after file, whatever the table held before
C24_LoadReplaces ==
    [][(LegacyStep /\ view'.load # "none") =>
         /\ view'.load = "failed" <=> (~folder.exists \/ ReadableFiles(folder) = {})
         /\ view'.load = "failed" => store'.table = store.table
         /\ view'.load = "succeeded" =>
               /\ \A i \in 1..Len(folder.files) :
                     Cardinality(RecordsOf(store'.table, folder.files[i].name))
                        = IF i \in ReadableFiles(folder) THEN Len(folder.files[i].rows)
                          ELSE 0
               /\ \A k \in 1..Len(store'.table) :
                     /\ \E i \in ReadableFiles(folder) :
                           store'.table[k].file = folder.files[i].name
                     /\ store'.table[k].data_loaded_at = now
               /\ \A k \in 1..(Len(store'.table) - 1) :
                     FileIndex(folder, store'.table[k].file)
                        <= FileIndex(folder, store'.table[k + 1].file)]_vars

\* a refresh of a table loaded before, from a folder with two files that
\* read and one that does not: three records again
C24_Witness ==
    /\ phase = "clicked"
    /\ view.load = "succeeded"
    /\ view.sidebar = "Database Active"
    /\ ~folder.files[2].readable
    /\ Len(store.table) = 3


(***************************************************************************)
(* C25: the scale of the legacy score.                                     *)
(***************************************************************************)
LegacyLabels == {"HIGH VOLUME"} \cup LegacyOtherLabels

FiredLabels == {l \in LegacyLabels : HasLabel(l)}

\* C25: the legacy score is 15 times the number of rules that fired, each
\* rule at most once, so at most six flags and a score among 0, 15, .., 90
C25_FifteenPerFlag ==
    (Scored /\ IsLegacy) =>
        /\ \A i \in 1..Len(flags) : flags[i] \in LegacyLabels
        /\ \A i, j \in 1..Len(flags) : flags[i] = flags[j] => i = j
        /\ Len(flags) <= 6
        /\ risk_score = 15 * Cardinality(FiredLabels)
        /\ risk_score = Min2(100, 15 * Len(flags))
        /\ risk_score \in {0, 15, 30, 45, 60, 75, 90}

\* three rules other than the volume rule fired: 45 points
C25_Witness ==
    /\ Scored /\ IsLegacy
    /\ ~HasLabel("HIGH VOLUME")
    /\ Len(flags) = 3
    /\ risk_score = 45

\* the rule a label of a summary scorer stands for, by position in the code
RuleOf(l) ==
    CASE l = "EXTREME VOLUME" -> 1
      [] l = "HIGH VOLUME" -> 2
      [] l \in BatchLabels -> 3
      [] l \in MultiStateLabels -> 4
      [] l \in WinRateLabels -> 5

RuleSequence(fl) == [i \in 1..Len(fl) |-> RuleOf(fl[i])]

InFlaggedList == view.flagged # <<>>

\* C26: in the summary revisions a provider is in the flagged list exactly
\* when its risk score is at least 30; so a provider with more than 10000
\* disputes is flagged, and one whose only fired rules are HIGH VOLUME and
\* the win rate rule (25 points) is not
C26_FlaggedFromThirty ==
    (Scored /\ IsSummary /\ score_error = "none") =>
        /\ InFlaggedList <=> risk_score >= 30
        /\ InFlaggedList =>
               /\ Len(view.flagged) = 1
               /\ view.flagged[1].score = risk_score
               /\ view.flagged[1].disputes = input["total_disputes"]
        /\ input["total_disputes"] > 10000 => InFlaggedList
        /\ (Len(flags) = 2 /\ flags[1] = "HIGH VOLUME" /\ flags[2] \in WinRateLabels)
              => (risk_score = 25 /\ ~InFlaggedList)

C26_Witness ==
    /\ Scored
    /\ IsSummary
    /\ score_error = "none"
    /\ input["total_disputes"] > 10000
    /\ flags = <<"EXTREME VOLUME">>
    /\ risk_score = 30
    /\ InFlaggedList

\* what a revision computes for the row that was scored
OtherRevision(rev) == ScoreSummary(rev, input)

\* the content of a flagged list apart from the names of its columns and the
\* texts of its labels
FlaggedContent(list) ==
    [i \in 1..Len(list) |->
        [disputes |-> list[i].disputes, win_rate |-> list[i].win_rate,
         score |-> list[i].score, rules |-> RuleSequence(list[i].flags)]]

\* C27: the three summary revisions agree on every summary row: the same
\* risk score, the same rules fired in the same order and the same flagged
\* or not flagged decision; only label texts and column names differ
C27_RevisionsAgree ==
    (Scored /\ IsSummary) =>
        \A rev \in SummaryScorers :
            /\ OtherRevision(rev).error = score_error
            /\ OtherRevision(rev).risk_score = risk_score
            /\ RuleSequence(OtherRevision(rev).flags) = RuleSequence(flags)
            /\ (FlaggedList(rev, input) # <<>>) <=> InFlaggedList
            /\ FlaggedContent(FlaggedList(rev, input)) = FlaggedContent(view.flagged)

C27_Witness ==
    /\ Scored
    /\ scorer = "rev4"
    /\ score_error = "none"
    /\ flags = <<"HIGH VOLUME", "BATCH EXPLOITATION", "MULTI-JURISDICTION",
                 "ANOMALOUS WIN RATE">>
    /\ OtherRevision("rev2").flags =
          <<"HIGH VOLUME", "BATCH ABUSER", "MULTI-STATE", "ABNORMAL WIN RATE">>
    /\ risk_score = 60
    /\ InFlaggedList
    /\ view.flagged[1].columns # FlaggedColumns("rev2")

\* a legacy run that got a data set and went through the filters
Filtered == phase = "rendered" /\ view.shown \in {"tabs", "filters only"}

\* the dimensions that have a multiselect in the run: the column is in df
Dimensions ==
    {"quarter"} \cup ({"specialty", "location", "payer"} \cap Columns(view.df))

SelectionOf(dim) ==
    CASE dim = "quarter" -> view.selected.quarter
      [] dim = "specialty" -> view.selected.specialty
      [] dim = "location" -> view.selected.state
      [] dim = "payer" -> view.selected.payer

HasAll(dim) ==
    IF dim = "quarter" THEN AllQuarters \in SelectionOf(dim)
    ELSE "All" \in SelectionOf(dim)

\* the rows of df that the filter of one dimension lets through
PassedBy(dim) ==
    {i \in 1..Len(view.df) :
        HasAll(dim) \/ (dim \in DOMAIN view.df[i] /\ view.df[i][dim] \in SelectionOf(dim))}

RECURSIVE RowsAt(_, _, _)
\* the rows of a table at the positions of a set, in the table's order
RowsAt(table, positions, i) ==
    IF i > Len(table) THEN <<>>
    ELSE (IF i \in positions THEN <<table[i]>> ELSE <<>>)
         \o RowsAt(table, positions, i + 1)

PassedByAll == {i \in 1..Len(view.df) : \A dim \in Dimensions : i \in PassedBy(dim)}

\* C28: the legacy filtered data set is a part of the loaded one, namely the
\* rows every per-dimension filter lets through; a selection that contains
\* 'All' filters nothing whatever else it contains, so with 'All' in every
\* selection the filtered set is the full set; an empty selection leaves no
\* row and the main tabs are not rendered
C28_FiltersIntersect ==
    Filtered =>
        /\ view.filtered_df = RowsAt(view.df, PassedByAll, 1)
        /\ \A dim \in Dimensions : HasAll(dim) => PassedBy(dim) = 1..Len(view.df)
        /\ (\A dim \in Dimensions : HasAll(dim)) => view.filtered_df = view.df
        /\ (\E dim \in Dimensions : SelectionOf(dim) = {}) =>
               (view.filtered_df = <<>> /\ view.shown = "filters only")
        /\ view.shown = "tabs" <=> Len(view.filtered_df) > 0

C28_Witness ==
    /\ Filtered
    /\ Dimensions = {"quarter", "specialty", "location", "payer"}
    /\ view.selected.state = {"All", "CA"}
    /\ view.selected.specialty = {"Radiology"}
    /\ view.selected.payer = {"Aetna"}
    /\ ~HasAll("quarter")
    /\ Len(view.df) = 2
    /\ Len(view.filtered_df) = 1
    /\ view.filtered_df[1].location = "TX"
    /\ view.shown = "tabs"

====
